---- MODULE Spec2Model ----
(***************************************************************************)
(* A model of the pomodoro task tracker of src/src/main.rs: the App state, *)
(* the event loop of main (draw, update_pomodoro, poll, key dispatch) and  *)
(* the persistence functions load_todos and save_todos.                    *)
(*                                                                         *)
(* Text is a sequence of one-character strings.  An Option<T> is a         *)
(* sequence of length at most one: << >> is None and <<v>> is Some(v).     *)
(* Time is counted in whole seconds of the monotonic clock (Instant).      *)
(* App.cursor_position is written by the key handlers and read nowhere in  *)
(* the program; it is left out.                                            *)
(***************************************************************************)
EXTENDS Integers, Sequences, FiniteSets, TLC

VARIABLES
    todos,             \* App.todos: Vec<Task>
    input,             \* App.input: the task-name buffer
    language_input,    \* App.language_input: the language buffer
    selected_index,    \* App.selected_index (0-based, as in the source)
    input_mode,        \* App.input_mode: "Task" | "Language" | "NoTyping"
    status_message,    \* App.status_message: Option<(String, Instant)>
    file,              \* todo_list.txt: Option<sequence of lines>
    now,               \* the reading of the monotonic clock
    pc,                \* position of main: "draw" | "tick" | "poll" | "exited" | "failed" | "panicked"
    raw_mode,          \* the terminal is in raw mode
    alternate_screen,  \* the terminal shows the alternate screen
    event              \* the step that led to this state and its outcome (history variable)

vars == <<todos, input, language_input, selected_index, input_mode, status_message,
          file, now, pc, raw_mode, alternate_screen, event>>

-----------------------------------------------------------------------------
(* Bounds of the model *)

MaxTasks == 3
MaxLen == 1

-----------------------------------------------------------------------------
(* Program constants *)

WORK_DURATION == 1500
BREAK_DURATION == 300
MESSAGE_VISIBLE_FOR == 4

None == << >>
Some(v) == <<v>>
IsSome(o) == o # << >>
Unwrap(o) == o[1]

\* The clock readings the model draws from: each is a sum of the program's
\* durations, so that elapsed times fall below, on and above each threshold.
Instants == {0, MESSAGE_VISIBLE_FOR, WORK_DURATION, WORK_DURATION + BREAK_DURATION}

\* The characters a key event may carry, besides 'q', 'p' and 'i'.
TypedChars == {"a", " "}

-----------------------------------------------------------------------------
(* Text helpers *)

IsWhitespace(c) == c = " "

RECURSIVE TrimStart(_)
TrimStart(s) ==
    IF s # << >> /\ IsWhitespace(Head(s)) THEN TrimStart(Tail(s)) ELSE s

RECURSIVE TrimEnd(_)
TrimEnd(s) ==
    IF s # << >> /\ IsWhitespace(s[Len(s)]) THEN TrimEnd(SubSeq(s, 1, Len(s) - 1)) ELSE s

\* Faulty variant: the buffers are tested without trimming
TrimNothing(s) == s

\* str::trim
Trim(s) == TrimEnd(TrimStart(s))

Digits == <<"0", "1", "2", "3", "4", "5", "6", "7", "8", "9">>

IsDigit(c) == \E d \in 1..10 : Digits[d] = c

DigitValue(c) == (CHOOSE d \in 1..10 : Digits[d] = c) - 1

\* Display for u32: the decimal digits of n
RECURSIVE FormatU32(_)
FormatU32(n) ==
    IF n < 10 THEN <<Digits[n + 1]>> ELSE FormatU32(n \div 10) \o <<Digits[(n % 10) + 1]>>

RECURSIVE DecimalValue(_)
DecimalValue(s) ==
    IF s = << >> THEN 0
    ELSE 10 * DecimalValue(SubSeq(s, 1, Len(s) - 1)) + DigitValue(s[Len(s)])

\* str::parse::<u32>().ok(): an optional '+', then at least one digit and digits only
ParseU32(s) ==
    LET body == IF s # << >> /\ Head(s) = "+" THEN Tail(s) ELSE s
    IN  IF body # << >> /\ \A k \in 1..Len(body) : IsDigit(body[k])
        THEN Some(DecimalValue(body))
        ELSE None

\* The field delimiter " | "
Delimiter == <<" ", "|", " ">>

StartsWith(s, p) == Len(s) >= Len(p) /\ SubSeq(s, 1, Len(p)) = p

\* str::split(" | "): the pieces between the non-overlapping matches, left to right
RECURSIVE SplitFrom(_, _)
SplitFrom(piece, rest) ==
    IF rest = << >> THEN <<piece>>
    ELSE IF StartsWith(rest, Delimiter)
         THEN <<piece>> \o SplitFrom(<< >>, SubSeq(rest, Len(Delimiter) + 1, Len(rest)))
         ELSE SplitFrom(Append(piece, Head(rest)), Tail(rest))

Split(s) == SplitFrom(<< >>, s)

-----------------------------------------------------------------------------
(* Persistence *)

Unknown == <<"U", "n", "k", "n", "o", "w", "n">>

\* The Task that load_todos builds from one line
LoadLine(s) ==
    LET parts == Split(s)
        completed == IF Len(parts) >= 3 /\ IsSome(ParseU32(parts[3]))
                     THEN Unwrap(ParseU32(parts[3]))
                     ELSE 0
    IN  [name |-> parts[1],
         language |-> IF Len(parts) >= 2 THEN parts[2] ELSE Unknown,
         pomodoro_state |-> "Idle",
         pomodoro_start |-> None,
         completed_pomodoros |-> completed]

\* load_todos: an absent (unreadable) file gives the empty store
load_todos(f) ==
    IF IsSome(f) THEN [k \in 1..Len(Unwrap(f)) |-> LoadLine(Unwrap(f)[k])] ELSE << >>

\* The line save_todos writes for a task
SaveLine(task) ==
    task.name \o Delimiter \o task.language \o Delimiter \o FormatU32(task.completed_pomodoros)

\* Faulty variant: the file is opened for appending instead of being truncated
OpenedForAppend(f) == IF IsSome(f) THEN Unwrap(f) ELSE << >>

\* OpenOptions .write(true).create(true).truncate(true): the content once opened
Opened(f) == << >>

\* The file after a save_todos that returns: truncated, then one line per task
SavedFile(ts, f) == Some(Opened(f) \o [k \in 1..Len(ts) |-> SaveLine(ts[k])])

\* The files a save_todos that panics may leave: the old file when the open
\* fails, the first k lines when a write fails (whole lines only)
FailedSaves(ts, f) ==
    {f} \cup {Some([k \in 1..n |-> SaveLine(ts[k])]) : n \in 0..(Len(ts) - 1)}

-----------------------------------------------------------------------------
(* The App methods *)

NewTask(name, language) ==
    [name |-> name,
     language |-> language,
     pomodoro_state |-> "Idle",
     pomodoro_start |-> None,
     completed_pomodoros |-> 0]

\* A message text: the format string and the task name it is filled with
Text(format, name) == [format |-> format, name |-> name]

\* Instant::elapsed of a start instant, read at t
Elapsed(start, t) == t - start

\* The task at selected_index (the source indexes from 0, sequences from 1)
Selected(ts, sel) == ts[sel + 1]

\* Faulty variant: starting a task also resets its count
StartedTaskResetsCount(task, t) ==
    [task EXCEPT !.pomodoro_state = "Work", !.pomodoro_start = Some(t),
                 !.completed_pomodoros = 0]

\* Faulty variant: a timer that is running is left alone
StartedTaskIfIdle(task, t) ==
    IF task.pomodoro_state = "Idle"
    THEN [task EXCEPT !.pomodoro_state = "Work", !.pomodoro_start = Some(t)]
    ELSE task

\* The task start_pomodoro leaves at selected_index
StartedTask(task, t) ==
    [task EXCEPT !.pomodoro_state = "Work", !.pomodoro_start = Some(t)]

\* Faulty variant: the first task is started, whatever the selection
start_pomodoro_first(ts, sel, status, t) ==
    IF ts = << >>
    THEN [todos |-> ts, status_message |-> status]
    ELSE [todos |-> [ts EXCEPT ![1] = [@ EXCEPT !.pomodoro_state = "Work",
                                                !.pomodoro_start = Some(t)]],
          status_message |-> Some([text |-> Text("Started focus on '{}'. Stay sharp!",
                                                 ts[1].name),
                                   timestamp |-> t])]

\* start_pomodoro: the new todos and status_message
start_pomodoro(ts, sel, status, t) ==
    IF ts = << >>
    THEN [todos |-> ts, status_message |-> status]
    ELSE [todos |-> [ts EXCEPT ![sel + 1] = StartedTask(ts[sel + 1], t)],
          status_message |-> Some([text |-> Text("Started focus on '{}'. Stay sharp!",
                                                 ts[sel + 1].name),
                                   timestamp |-> t])]

\* Faulty variant: the work interval is measured against the break duration
WorkIsOverAfterBreakDuration(elapsed) == elapsed >= BREAK_DURATION

\* Faulty variant: the work interval must be exceeded, not just reached
WorkIsOverStrict(elapsed) == elapsed > WORK_DURATION

\* The guard of the Work arm of update_pomodoro
WorkIsOver(elapsed) == elapsed >= WORK_DURATION

\* The guard of the Break arm of update_pomodoro
BreakIsOver(elapsed) == elapsed >= BREAK_DURATION

\* Faulty variant: the break is timed from the moment the work interval ran out
WorkToBreakFromDeadline(task, t) ==
    [task EXCEPT !.pomodoro_state = "Break",
                 !.pomodoro_start = Some(Unwrap(task.pomodoro_start) + WORK_DURATION),
                 !.completed_pomodoros = @ + 1]

\* The Work arm of update_pomodoro.  completed_pomodoros is a u32; the clock
\* readings of the model allow each task one increment, far below 2^32.
WorkToBreak(task, t) ==
    [task EXCEPT !.pomodoro_state = "Break",
                 !.pomodoro_start = Some(t),
                 !.completed_pomodoros = @ + 1]

\* Faulty variant: the break ends without clearing the start instant
BreakToIdleKeepsStart(task) == [task EXCEPT !.pomodoro_state = "Idle"]

\* The Break arm of update_pomodoro
BreakToIdle(task) ==
    [task EXCEPT !.pomodoro_state = "Idle", !.pomodoro_start = None]

\* update_pomodoro: the new todos and status_message
update_pomodoro(ts, sel, status, t) ==
    IF ts = << >>
    THEN [todos |-> ts, status_message |-> status]
    ELSE LET task == ts[sel + 1]
         IN  IF IsSome(task.pomodoro_start)
             THEN LET elapsed == Elapsed(Unwrap(task.pomodoro_start), t)
                  IN  IF task.pomodoro_state = "Work" /\ WorkIsOver(elapsed)
                      THEN [todos |-> [ts EXCEPT ![sel + 1] = WorkToBreak(task, t)],
                            status_message |->
                                Some([text |-> Text("Work session done! Take a break, {}.",
                                                    task.name),
                                      timestamp |-> t])]
                      ELSE IF task.pomodoro_state = "Break" /\ BreakIsOver(elapsed)
                      THEN [todos |-> [ts EXCEPT ![sel + 1] = BreakToIdle(task)],
                            status_message |->
                                Some([text |-> Text("Break finished. Ready for another round?",
                                                    << >>),
                                      timestamp |-> t])]
                      ELSE [todos |-> ts, status_message |-> status]
             ELSE [todos |-> ts, status_message |-> status]

\* Faulty variant: a message is still visible at exactly MESSAGE_VISIBLE_FOR
StatusReadInclusive(status, t) ==
    IF IsSome(status) /\ Elapsed(Unwrap(status).timestamp, t) <= MESSAGE_VISIBLE_FOR
    THEN [returned |-> Some(Unwrap(status).text), status_message |-> status]
    ELSE [returned |-> None, status_message |-> None]

\* App::status_message: what the read returns and what it leaves in the field
StatusRead(status, t) ==
    IF IsSome(status) /\ Elapsed(Unwrap(status).timestamp, t) < MESSAGE_VISIBLE_FOR
    THEN [returned |-> Some(Unwrap(status).text), status_message |-> status]
    ELSE [returned |-> None, status_message |-> None]

\* The phase label and duration pomodoro_overview picks for a running timer
PhaseOf(state) ==
    IF state = "Work" THEN [phase |-> "Focus", duration |-> WORK_DURATION]
    ELSE [phase |-> "Break", duration |-> BREAK_DURATION]

\* Duration::checked_sub(..).unwrap_or(0)
Remaining(duration, elapsed) == IF elapsed <= duration THEN duration - elapsed ELSE 0

\* Faulty variant: the ratio is not capped at 1
ProgressUnclamped(duration, elapsed) == [num |-> elapsed, den |-> duration]

\* (elapsed / duration).min(1.0), as the fraction num / den
Progress(duration, elapsed) ==
    [num |-> IF elapsed < duration THEN elapsed ELSE duration, den |-> duration]

\* pomodoro_overview: the label, the remaining seconds and the progress ratio
pomodoro_overview(ts, sel, t) ==
    IF ts = << >>
    THEN [label |-> "No tasks available", remaining |-> 0, progress |-> [num |-> 0, den |-> 1]]
    ELSE LET task == ts[sel + 1]
         IN  IF IsSome(task.pomodoro_start)
             THEN IF task.pomodoro_state = "Idle"
                  THEN [label |-> "Pomodoro paused. Press 'p' to resume.",
                        remaining |-> 0, progress |-> [num |-> 0, den |-> 1]]
                  ELSE LET elapsed == Elapsed(Unwrap(task.pomodoro_start), t)
                           ph == PhaseOf(task.pomodoro_state)
                       IN  [label |-> ph.phase,
                            remaining |-> Remaining(ph.duration, elapsed),
                            progress |-> Progress(ph.duration, elapsed)]
             ELSE [label |-> "Press 'p' to start the pomodoro for this task.",
                   remaining |-> 0, progress |-> [num |-> 0, den |-> 1]]

\* String::push in handle_input
Pushed(buffer, c) == Append(buffer, c)

\* String::pop in handle_backspace
Popped(buffer) == SubSeq(buffer, 1, Len(buffer) - 1)

\* usize::saturating_sub(1)
SaturatingPred(n) == IF n > 0 THEN n - 1 ELSE 0

\* Faulty variant: the last task is removed, whatever the index
RemovedLast(ts, index) == SubSeq(ts, 1, Len(ts) - 1)

\* Vec::remove(index), index from 0
Removed(ts, index) ==
    [k \in 1..(Len(ts) - 1) |-> IF k <= index THEN ts[k] ELSE ts[k + 1]]

\* Faulty variant: the index is left as it was
UnclampedIndex(sel, len) == sel

\* selected_index after the Delete arm has removed a task
ClampedIndex(sel, len) == IF sel >= len /\ sel > 0 THEN sel - 1 ELSE sel

-----------------------------------------------------------------------------
(* The state after construction: App::new() in main, the terminal set up *)

\* The contents of todo_list.txt at startup that the model draws from
InitialFiles ==
    {None,
     Some(<< <<"a", "a", " ", "|", " ", "a">>,
             <<"a", " ", "|", " ", "a", " ", "|", " ", "2">> >>)}

Init ==
    /\ file \in InitialFiles
    /\ todos = load_todos(file)
    /\ input = << >>
    /\ language_input = << >>
    /\ selected_index = 0
    /\ input_mode = "NoTyping"
    /\ status_message = None
    /\ now = 0
    /\ pc = "draw"
    /\ raw_mode = TRUE
    /\ alternate_screen = TRUE
    /\ event = <<"Init">>

Running == pc \in {"draw", "tick", "poll"}

-----------------------------------------------------------------------------
(* The environment: the monotonic clock advances *)

Elapse ==
    /\ Running
    /\ \E t \in Instants : t > now /\ now' = t
    /\ event' = <<"Elapse">>
    /\ UNCHANGED <<todos, input, language_input, selected_index, input_mode, status_message,
                   file, pc, raw_mode, alternate_screen>>

-----------------------------------------------------------------------------
(* One iteration of the loop of main: draw, update_pomodoro, poll and dispatch *)

\* terminal.draw: the closure reads pomodoro_overview and status_message
Draw ==
    /\ pc = "draw"
    /\ status_message' = StatusRead(status_message, now).status_message
    /\ pc' = "tick"
    /\ event' = <<"Draw">>
    /\ UNCHANGED <<todos, input, language_input, selected_index, input_mode, file, now,
                   raw_mode, alternate_screen>>

\* terminal.draw returns an error, before or after the closure ran: main returns it
DrawFails ==
    /\ pc = "draw"
    /\ status_message' \in {status_message, StatusRead(status_message, now).status_message}
    /\ pc' = "failed"
    /\ event' = <<"DrawFails">>
    /\ UNCHANGED <<todos, input, language_input, selected_index, input_mode, file, now,
                   raw_mode, alternate_screen>>

\* app.update_pomodoro()
Tick ==
    /\ pc = "tick"
    /\ LET r == update_pomodoro(todos, selected_index, status_message, now)
       IN  /\ todos' = r.todos
           /\ status_message' = r.status_message
    /\ pc' = "poll"
    /\ event' = <<"Tick">>
    /\ UNCHANGED <<input, language_input, selected_index, input_mode, file, now, raw_mode,
                   alternate_screen>>

\* event::poll times out, or event::read returns an event that is no key
NoKey ==
    /\ pc = "poll"
    /\ pc' = "draw"
    /\ event' = <<"NoKey">>
    /\ UNCHANGED <<todos, input, language_input, selected_index, input_mode, status_message,
                   file, now, raw_mode, alternate_screen>>

\* event::poll or event::read returns an error: main returns it
PollFails ==
    /\ pc = "poll"
    /\ pc' = "failed"
    /\ event' = <<"PollFails">>
    /\ UNCHANGED <<todos, input, language_input, selected_index, input_mode, status_message,
                   file, now, raw_mode, alternate_screen>>

\* KeyCode::Char('q'): leave the loop; disable_raw_mode, LeaveAlternateScreen and
\* show_cursor then run (they are taken to succeed) and main returns Ok
KeyQ ==
    /\ pc = "poll"
    /\ raw_mode' = FALSE
    /\ alternate_screen' = FALSE
    /\ pc' = "exited"
    /\ event' = <<"Char", "q">>
    /\ UNCHANGED <<todos, input, language_input, selected_index, input_mode, status_message,
                   file, now>>

\* Faulty variant: Esc leaves the wizard without clearing the buffers
KeyEscKeepsBuffers ==
    /\ pc = "poll"
    /\ input_mode' = "NoTyping"
    /\ status_message' = Some([text |-> Text("Creation cancelled.", << >>), timestamp |-> now])
    /\ pc' = "draw"
    /\ event' = <<"Esc">>
    /\ UNCHANGED <<todos, input, language_input, selected_index, file, now, raw_mode,
                   alternate_screen>>

\* KeyCode::Esc
KeyEsc ==
    /\ pc = "poll"
    /\ input_mode' = "NoTyping"
    /\ input' = << >>
    /\ language_input' = << >>
    /\ status_message' = Some([text |-> Text("Creation cancelled.", << >>), timestamp |-> now])
    /\ pc' = "draw"
    /\ event' = <<"Esc">>
    /\ UNCHANGED <<todos, selected_index, file, now, raw_mode, alternate_screen>>

\* KeyCode::Char('p')
KeyP ==
    /\ pc = "poll"
    /\ LET r == start_pomodoro(todos, selected_index, status_message, now)
       IN  /\ todos' = r.todos
           /\ status_message' = r.status_message
    /\ pc' = "draw"
    /\ event' = <<"Char", "p">>
    /\ UNCHANGED <<input, language_input, selected_index, input_mode, file, now, raw_mode,
                   alternate_screen>>

\* KeyCode::Char('i')
KeyI ==
    /\ pc = "poll"
    /\ input_mode' = "Task"
    /\ pc' = "draw"
    /\ event' = <<"Char", "i">>
    /\ UNCHANGED <<todos, input, language_input, selected_index, status_message, file, now,
                   raw_mode, alternate_screen>>

\* KeyCode::Char(c) for any other character: app.handle_input(c)
KeyChar ==
    /\ pc = "poll"
    /\ \E c \in TypedChars :
        /\ event' = <<"Char", c>>
        /\ \/ /\ input_mode = "Task"
              /\ Len(input) < MaxLen
              /\ input' = Pushed(input, c)
              /\ UNCHANGED language_input
           \/ /\ input_mode = "Language"
              /\ Len(language_input) < MaxLen
              /\ language_input' = Pushed(language_input, c)
              /\ UNCHANGED input
           \/ /\ input_mode = "NoTyping"
              /\ UNCHANGED <<input, language_input>>
    /\ pc' = "draw"
    /\ UNCHANGED <<todos, selected_index, input_mode, status_message, file, now, raw_mode,
                   alternate_screen>>

\* KeyCode::Backspace: app.handle_backspace()
KeyBackspace ==
    /\ pc = "poll"
    /\ \/ /\ input_mode = "Task"
          /\ input # << >>
          /\ input' = Popped(input)
          /\ UNCHANGED language_input
       \/ /\ input_mode = "Language"
          /\ language_input # << >>
          /\ language_input' = Popped(language_input)
          /\ UNCHANGED input
       \/ /\ \/ input_mode = "Task" /\ input = << >>
             \/ input_mode = "Language" /\ language_input = << >>
             \/ input_mode = "NoTyping"
          /\ UNCHANGED <<input, language_input>>
    /\ pc' = "draw"
    /\ event' = <<"Backspace">>
    /\ UNCHANGED <<todos, selected_index, input_mode, status_message, file, now, raw_mode,
                   alternate_screen>>

\* KeyCode::Enter: advance the creation wizard, or push the new task and save
KeyEnter ==
    /\ pc = "poll"
    /\ \/ /\ input_mode = "Task"
          /\ Trim(input) # << >>
          /\ input_mode' = "Language"
          /\ pc' = "draw"
          /\ event' = <<"Enter", "advanced">>
          /\ UNCHANGED <<todos, input, language_input, status_message, file>>
       \/ /\ input_mode = "Language"
          /\ Trim(language_input) # << >>
          /\ Len(todos) < MaxTasks
          /\ todos' = Append(todos, NewTask(Trim(input), Trim(language_input)))
          /\ event' = <<"Enter", "created">>
          /\ \/ /\ file' = SavedFile(todos', file)
                /\ input' = << >>
                /\ language_input' = << >>
                /\ input_mode' = "NoTyping"
                /\ status_message' = Some([text |-> Text("New task added. Ready to focus!", << >>),
                                           timestamp |-> now])
                /\ pc' = "draw"
             \/ /\ file' \in FailedSaves(todos', file)
                /\ pc' = "panicked"
                /\ UNCHANGED <<input, language_input, input_mode, status_message>>
       \/ /\ \/ input_mode = "Task" /\ Trim(input) = << >>
             \/ input_mode = "Language" /\ Trim(language_input) = << >>
             \/ input_mode = "NoTyping"
          /\ pc' = "draw"
          /\ event' = <<"Enter", "ignored">>
          /\ UNCHANGED <<todos, input, language_input, input_mode, status_message, file>>
    /\ UNCHANGED <<selected_index, now, raw_mode, alternate_screen>>

\* KeyCode::Delete: with a non-empty store, remove the selected task and save;
\* with an empty store the key falls to the catch-all arm
KeyDelete ==
    /\ pc = "poll"
    /\ \/ /\ todos # << >>
          /\ todos' = Removed(todos, selected_index)
          /\ event' = <<"Delete", "removed", selected_index>>
          /\ \/ /\ file' = SavedFile(todos', file)
                /\ selected_index' = ClampedIndex(selected_index, Len(todos'))
                /\ status_message' =
                       Some([text |-> Text("Removed '{}'.", Selected(todos, selected_index).name),
                             timestamp |-> now])
                /\ pc' = "draw"
             \/ /\ file' \in FailedSaves(todos', file)
                /\ pc' = "panicked"
                /\ UNCHANGED <<selected_index, status_message>>
       \/ /\ todos = << >>
          /\ pc' = "draw"
          /\ event' = <<"Delete", "ignored">>
          /\ UNCHANGED <<todos, selected_index, status_message, file>>
    /\ UNCHANGED <<input, language_input, input_mode, now, raw_mode, alternate_screen>>

\* The guard of the KeyCode::Up arm
CanMoveUp(sel) == sel > 0

\* Faulty variant: the bound is the length, not the last index
CanMoveDownToLen(sel, len) == sel < len

\* The guard of the KeyCode::Down arm: sel < len.saturating_sub(1)
CanMoveDown(sel, len) == sel < SaturatingPred(len)

\* KeyCode::Up
KeyUp ==
    /\ pc = "poll"
    /\ selected_index' = IF CanMoveUp(selected_index) THEN selected_index - 1
                         ELSE selected_index
    /\ pc' = "draw"
    /\ event' = <<"Up">>
    /\ UNCHANGED <<todos, input, language_input, input_mode, status_message, file, now,
                   raw_mode, alternate_screen>>

\* KeyCode::Down
KeyDown ==
    /\ pc = "poll"
    /\ selected_index' = IF CanMoveDown(selected_index, Len(todos)) THEN selected_index + 1
                         ELSE selected_index
    /\ pc' = "draw"
    /\ event' = <<"Down">>
    /\ UNCHANGED <<todos, input, language_input, input_mode, status_message, file, now,
                   raw_mode, alternate_screen>>

\* Any other key: the catch-all arm
KeyOther ==
    /\ pc = "poll"
    /\ pc' = "draw"
    /\ event' = <<"Other">>
    /\ UNCHANGED <<todos, input, language_input, selected_index, input_mode, status_message,
                   file, now, raw_mode, alternate_screen>>

Next ==
    \/ Elapse
    \/ Draw
    \/ DrawFails
    \/ Tick
    \/ NoKey
    \/ PollFails
    \/ KeyQ
    \/ KeyEsc
    \/ KeyP
    \/ KeyI
    \/ KeyChar
    \/ KeyBackspace
    \/ KeyEnter
    \/ KeyDelete
    \/ KeyUp
    \/ KeyDown
    \/ KeyOther

Spec == Init /\ [][Next]_vars

-----------------------------------------------------------------------------
(* Type correctness *)

TypeOK ==
    /\ Len(todos) <= MaxTasks
    /\ \A k \in 1..Len(todos) : todos[k].pomodoro_state \in {"Idle", "Work", "Break"}
    /\ input_mode \in {"Task", "Language", "NoTyping"}
    /\ Len(input) <= MaxLen /\ Len(language_input) <= MaxLen
    /\ now \in Instants
    /\ pc \in {"draw", "tick", "poll", "exited", "failed", "panicked"}

-----------------------------------------------------------------------------
(* The persistence functions on their own: a store is written by save_todos
   and read back by the load_todos of the next start of the program. The
   names and languages are texts the wizard accepts (trimmed and non-empty),
   typed from the letter, the space and the vertical bar. *)

RoundTripTexts ==
    {<<"a">>, <<"a", " ", "a">>, <<"a", "|", "a">>, <<"|", " ", "|">>}

\* The tasks of a store: created by the wizard, then started and counted by ticks
RoundTripTasks ==
    {[NewTask(name, language) EXCEPT !.pomodoro_state = timer[1],
                                     !.pomodoro_start = timer[2],
                                     !.completed_pomodoros = count] :
        name \in RoundTripTexts, language \in RoundTripTexts,
        timer \in {<<"Idle", None>>, <<"Work", Some(0)>>}, count \in {0, 12}}

InitRoundTrip ==
    /\ \E n \in 0..MaxTasks : todos \in [1..n -> RoundTripTasks]
    /\ file = None
    /\ input = << >>
    /\ language_input = << >>
    /\ selected_index = 0
    /\ input_mode = "NoTyping"
    /\ status_message = None
    /\ now = 0
    /\ pc = "poll"
    /\ raw_mode = TRUE
    /\ alternate_screen = TRUE
    /\ event = <<"Init">>

\* save_todos(&app.todos), succeeding
SaveStore ==
    /\ pc = "poll"
    /\ file' = SavedFile(todos, file)
    /\ pc' = "draw"
    /\ event' = <<"Save">>
    /\ UNCHANGED <<todos, input, language_input, selected_index, input_mode, status_message,
                   now, raw_mode, alternate_screen>>

\* The next start of the program: App::new loads the store from the file. The
\* event keeps the store the previous run had in memory.
Restart ==
    /\ pc = "draw"
    /\ event[1] = "Save"
    /\ todos' = load_todos(file)
    /\ pc' = "draw"
    /\ event' = <<"Restart", todos>>
    /\ UNCHANGED <<file, input, language_input, selected_index, input_mode, status_message,
                   now, raw_mode, alternate_screen>>

NextRoundTrip ==
    \/ SaveStore
    \/ Restart

SpecRoundTrip == InitRoundTrip /\ [][NextRoundTrip]_vars

-----------------------------------------------------------------------------
(* One pomodoro cycle under a loop that keeps running: the selected task has
   just been started, no key restarts, deletes, moves the selection or quits,
   no call fails, and the clock keeps advancing. *)

\* The clock readings of a cycle: a task started at 0 has its work interval
\* run out at a reading, one started at MESSAGE_VISIBLE_FOR between two
CycleInstants ==
    Instants \cup {WORK_DURATION + BREAK_DURATION + MESSAGE_VISIBLE_FOR,
                   WORK_DURATION + 2 * BREAK_DURATION}

\* The state after 'p' on a task of the loaded store, at time 0 or later
InitCycle ==
    /\ file \in InitialFiles
    /\ load_todos(file) # << >>
    /\ selected_index \in 0..(Len(load_todos(file)) - 1)
    /\ now \in {0, MESSAGE_VISIBLE_FOR}
    /\ LET r == start_pomodoro(load_todos(file), selected_index, None, now)
       IN  /\ todos = r.todos
           /\ status_message = r.status_message
    /\ input = << >>
    /\ language_input = << >>
    /\ input_mode = "NoTyping"
    /\ pc = "draw"
    /\ raw_mode = TRUE
    /\ alternate_screen = TRUE
    /\ event = <<"Char", "p">>

\* Time passes while the loop waits in event::poll. One wait lasts at most
\* 100 ms, so the clock passes at most one reading between two ticks.
ElapseCycle ==
    /\ pc = "poll"
    /\ event[1] = "Tick"
    /\ now' \in CycleInstants
    /\ now' > now
    /\ \A t \in CycleInstants : t > now => now' <= t
    /\ event' = <<"Elapse">>
    /\ UNCHANGED <<todos, input, language_input, selected_index, input_mode, status_message,
                   file, pc, raw_mode, alternate_screen>>

\* event::poll returns, with no key or with a key that is no timer, deletion,
\* navigation, creation or quit command
PollReturns ==
    \/ NoKey
    \/ KeyOther
    \/ KeyEsc
    \/ KeyI
    \/ KeyChar
    \/ KeyBackspace

NextCycle ==
    \/ ElapseCycle
    \/ Draw
    \/ Tick
    \/ PollReturns

\* The loop keeps running (weak fairness of its three steps) and time keeps
\* advancing (strong fairness: the clock can advance in every poll again)
SpecCycle ==
    /\ InitCycle
    /\ [][NextCycle]_vars
    /\ WF_vars(Draw)
    /\ WF_vars(Tick)
    /\ WF_vars(PollReturns)
    /\ SF_vars(ElapseCycle)

-----------------------------------------------------------------------------

(* Helpers of the properties below *)

\* The step that led to the current state
EventIs(kind) == event[1] = kind
CharTyped(c) == Len(event) = 2 /\ event[1] = "Char" /\ event[2] = c
EnterOutcome(outcome) == Len(event) = 2 /\ event[1] = "Enter" /\ event[2] = outcome
DeleteRemoved == Len(event) = 3 /\ event[1] = "Delete"

\* The same, of the step being taken
StepIs(kind) == event'[1] = kind
StepTypes(c) == Len(event') = 2 /\ event'[1] = "Char" /\ event'[2] = c
StepEnter(outcome) == Len(event') = 2 /\ event'[1] = "Enter" /\ event'[2] = outcome
StepRemoves == Len(event') = 3 /\ event'[1] = "Delete"

\* The position before a step of the task that is at position k after it
\* (positions from 1): a removal at selected_index shifts the tasks behind it
Origin(k) == IF Len(todos') < Len(todos) /\ k > selected_index THEN k + 1 ELSE k

\* The tasks that are in the store before and after a step, by their new position
Surviving == {k \in 1..Len(todos') : Origin(k) \in 1..Len(todos)}

TimerFields(task) ==
    <<task.pomodoro_state, task.pomodoro_start, task.completed_pomodoros>>

\* A buffer that trims to the empty string
Blank(s) == \A k \in 1..Len(s) : s[k] = " "

HasSelection == todos # << >> /\ selected_index < Len(todos)

-----------------------------------------------------------------------------
(* C1 *)

\* C1: in every state of the running program every task is Idle exactly when
\* its pomodoro_start is None (and Work or Break exactly when it is Some).
C1_IdleIffNoStart ==
    pc # "panicked" =>
        \A k \in 1..Len(todos) :
            (todos[k].pomodoro_state = "Idle") <=> (todos[k].pomodoro_start = None)

\* A tick has just ended the break of the selected task, which is Idle with no
\* start again, while another task still runs.
C1_Witness ==
    /\ EventIs("Tick")
    /\ HasSelection
    /\ Selected(todos, selected_index).pomodoro_state = "Idle"
    /\ Selected(todos, selected_index).pomodoro_start = None
    /\ Selected(todos, selected_index).completed_pomodoros > 0
    /\ IsSome(status_message)
    /\ Unwrap(status_message).text.format = "Break finished. Ready for another round?"
    /\ Unwrap(status_message).timestamp = now
    /\ \E k \in 1..Len(todos) : todos[k].pomodoro_state \in {"Work", "Break"}

-----------------------------------------------------------------------------
(* C2 *)

\* C2: in every state of the running program selected_index is below the
\* length of a non-empty store and is 0 for an empty store.
C2_SelectionValid ==
    pc # "panicked" =>
        /\ todos # << >> => selected_index < Len(todos)
        /\ todos = << >> => selected_index = 0

\* The last task of a store of several was selected and has just been deleted:
\* the index was stepped back onto the new last task.
C2_Witness ==
    /\ DeleteRemoved
    /\ pc = "draw"
    /\ todos # << >>
    /\ event[3] = Len(todos)
    /\ selected_index = Len(todos) - 1

-----------------------------------------------------------------------------
(* C3 *)

\* C3: a tick on a selected task in Work whose elapsed time is at least
\* WORK_DURATION puts it in Break, started at the current time, with its count
\* raised by exactly 1; a tick on a selected task in Break whose elapsed time is
\* below BREAK_DURATION changes no task.
C3_WorkToBreakOnTick ==
    [][(StepIs("Tick") /\ HasSelection /\ IsSome(Selected(todos, selected_index).pomodoro_start)) =>
        LET task == Selected(todos, selected_index)
            elapsed == now - Unwrap(task.pomodoro_start)
        IN  /\ (task.pomodoro_state = "Work" /\ elapsed >= WORK_DURATION) =>
                   /\ Len(todos') = Len(todos)
                   /\ todos'[selected_index + 1].pomodoro_state = "Break"
                   /\ todos'[selected_index + 1].pomodoro_start = Some(now)
                   /\ todos'[selected_index + 1].completed_pomodoros =
                          task.completed_pomodoros + 1
            /\ (task.pomodoro_state = "Break" /\ elapsed < BREAK_DURATION) =>
                   todos' = todos
      ]_vars

\* A tick found the selected task in a Break that began when exactly
\* WORK_DURATION had elapsed and that is not over, and changed nothing: the
\* message of the transition has been replaced since.
C3_Witness ==
    /\ EventIs("Tick")
    /\ HasSelection
    /\ now = WORK_DURATION
    /\ Selected(todos, selected_index).pomodoro_state = "Break"
    /\ Selected(todos, selected_index).pomodoro_start = Some(WORK_DURATION)
    /\ Selected(todos, selected_index).completed_pomodoros = 1
    /\ IsSome(status_message)
    /\ Unwrap(status_message).text.format = "Creation cancelled."

-----------------------------------------------------------------------------
(* C4 *)

\* C4: in every step the count of every surviving task does not decrease, and
\* it changes only by growing by exactly 1 in a step that takes the task from
\* Work to Break; a start ('p') and a Break to Idle transition leave it as it was.
C4_CountMonotone ==
    [][\A k \in Surviving :
        LET old == todos[Origin(k)]
            new == todos'[k]
        IN  /\ new.completed_pomodoros >= old.completed_pomodoros
            /\ new.completed_pomodoros # old.completed_pomodoros =>
                   /\ new.completed_pomodoros = old.completed_pomodoros + 1
                   /\ old.pomodoro_state = "Work"
                   /\ new.pomodoro_state = "Break"
            /\ StepTypes("p") => new.completed_pomodoros = old.completed_pomodoros
            /\ (old.pomodoro_state = "Break" /\ new.pomodoro_state = "Idle") =>
                   new.completed_pomodoros = old.completed_pomodoros
      ]_vars

\* A task that has completed pomodoros has just been restarted with 'p' at the
\* instant its break began, and has kept its count.
C4_Witness ==
    /\ CharTyped("p")
    /\ HasSelection
    /\ now = WORK_DURATION
    /\ Selected(todos, selected_index).pomodoro_state = "Work"
    /\ Selected(todos, selected_index).pomodoro_start = Some(now)
    /\ Selected(todos, selected_index).completed_pomodoros = 3

-----------------------------------------------------------------------------
(* C5 *)

\* C5: while input_mode is Task or Language, a character key, 'i', 'p' and 'q'
\* included, is appended to the active buffer and does nothing else: no timer
\* is started, input_mode stays and the program does not quit.
C5_TypingCapturesEveryChar ==
    [][(StepIs("Char") /\ input_mode \in {"Task", "Language"}) =>
        /\ input_mode = "Task" =>
               input' = Append(input, event'[2]) /\ language_input' = language_input
        /\ input_mode = "Language" =>
               language_input' = Append(language_input, event'[2]) /\ input' = input
        /\ input_mode' = input_mode
        /\ todos' = todos
        /\ pc' # "exited"
      ]_vars

-----------------------------------------------------------------------------
(* C6 *)

\* C6: a step changes the state, start and count of a surviving task only if
\* the step is a tick or a start ('p') and the task is the one at
\* selected_index; every other task keeps them, whatever the time.
C6_OnlySelectedTimerChanges ==
    [][\A k \in Surviving :
        TimerFields(todos'[k]) # TimerFields(todos[Origin(k)]) =>
            /\ StepIs("Tick") \/ StepTypes("p")
            /\ k = selected_index + 1
      ]_vars

\* A tick has run while a task that is not selected is in Work with its work
\* interval over: that task is still in Work.
C6_Witness ==
    /\ EventIs("Tick")
    /\ HasSelection
    /\ \E k \in 1..Len(todos) :
        /\ k # selected_index + 1
        /\ todos[k].pomodoro_state = "Work"
        /\ IsSome(todos[k].pomodoro_start)
        /\ now - Unwrap(todos[k].pomodoro_start) >= WORK_DURATION

-----------------------------------------------------------------------------
(* C7 *)

\* C7: 'p' on an empty store changes neither the store nor the status message;
\* on a non-empty store it leaves the selected task in Work, started at the
\* current time, whatever its state was, with its name, language and count as
\* they were, and the overview read at that instant shows the Focus phase with
\* progress 0 (and the whole work interval remaining).
C7_StartRestartsSelected ==
    [][StepTypes("p") =>
        IF todos = << >>
        THEN todos' = todos /\ status_message' = status_message
        ELSE LET old == todos[selected_index + 1]
                 new == todos'[selected_index + 1]
                 view == pomodoro_overview(todos', selected_index', now')
             IN  /\ Len(todos') = Len(todos)
                 /\ new.pomodoro_state = "Work"
                 /\ new.pomodoro_start = Some(now)
                 /\ new.completed_pomodoros = old.completed_pomodoros
                 /\ new.name = old.name /\ new.language = old.language
                 /\ view.label = "Focus"
                 /\ view.progress.num = 0
                 /\ view.remaining = WORK_DURATION
      ]_vars

\* 'p' has just been pressed on a task whose break began at this instant (its
\* first pomodoro completed at WORK_DURATION): it is back in Work from now.
C7_Witness ==
    /\ CharTyped("p")
    /\ HasSelection
    /\ now = WORK_DURATION
    /\ Selected(todos, selected_index).pomodoro_state = "Work"
    /\ Selected(todos, selected_index).pomodoro_start = Some(now)
    /\ Selected(todos, selected_index).completed_pomodoros = 1
    /\ pomodoro_overview(todos, selected_index, now).progress.num = 0

-----------------------------------------------------------------------------
(* C8 *)

\* C8: Enter in Task mode with a task buffer that trims to empty, or in
\* Language mode with a language buffer that trims to empty, changes nothing:
\* store, file, input_mode, both buffers and the status message stay.
C8_BlankEnterIgnored ==
    [][(StepIs("Enter") /\ \/ input_mode = "Task" /\ Blank(input)
                           \/ input_mode = "Language" /\ Blank(language_input)) =>
        UNCHANGED <<todos, file, input_mode, input, language_input, status_message,
                    selected_index>>
      ]_vars

\* Enter has just been pressed in Language mode on a language buffer that holds
\* only a space, with a task name entered: the wizard is still in Language mode.
C8_Witness ==
    /\ EnterOutcome("ignored")
    /\ input_mode = "Language"
    /\ language_input = <<" ">>
    /\ input # << >>

-----------------------------------------------------------------------------
(* C9 *)

\* C9: when a task creation or a Delete has completed, the file holds exactly
\* one line per task of the store, in store order, made of that task's name,
\* language and count.
C9_FileMirrorsStore ==
    ((EnterOutcome("created") \/ DeleteRemoved) /\ pc # "panicked") =>
        /\ IsSome(file)
        /\ Len(Unwrap(file)) = Len(todos)
        /\ \A k \in 1..Len(todos) :
            Unwrap(file)[k] =
                todos[k].name \o <<" ", "|", " ">> \o todos[k].language \o <<" ", "|", " ">>
                    \o FormatU32(todos[k].completed_pomodoros)

\* A Delete has just completed on a store loaded from a file of two lines: the
\* file now holds the one line of the task that is left, with its count.
C9_Witness ==
    /\ DeleteRemoved
    /\ pc = "draw"
    /\ Len(todos) = 1
    /\ todos[1].completed_pomodoros = 3
    /\ file = Some(<< <<"a", " ", "|", " ", "a", " ", "|", " ", "3">> >>)

-----------------------------------------------------------------------------
(* C10 *)

\* C10: a Delete on a non-empty store removes the task at selected_index and
\* keeps the others in order; a Delete on an empty store changes nothing; a
\* created task is appended after the tasks already there.
C10_DeleteAndAppendKeepOrder ==
    [][/\ StepIs("Delete") =>
            IF todos = << >>
            THEN UNCHANGED <<todos, selected_index, file, status_message>>
            ELSE /\ Len(todos') = Len(todos) - 1
                 /\ \A k \in 1..Len(todos') :
                     todos'[k] = todos[IF k <= selected_index THEN k ELSE k + 1]
       /\ StepEnter("created") =>
            /\ Len(todos') = Len(todos) + 1
            /\ \A k \in 1..Len(todos) : todos'[k] = todos[k]
            /\ todos'[Len(todos')].pomodoro_state = "Idle"
            /\ todos'[Len(todos')].completed_pomodoros = 0
      ]_vars

\* The task in the middle of three has just been deleted: the tasks loaded from
\* the file's first line and the task created after them are left, in that order.
C10_Witness ==
    /\ DeleteRemoved
    /\ event[3] = 1
    /\ pc = "draw"
    /\ Len(todos) = 2
    /\ todos[1].name = <<"a", "a">>
    /\ todos[2].language = <<"a">>
    /\ todos[2].completed_pomodoros = 0

-----------------------------------------------------------------------------
(* C11 *)

\* C11: navigation never wraps. An Up step at index 0 leaves the index 0, a Down
\* step at the last index or on an empty store leaves it unchanged, any other
\* Up step lowers it by exactly 1 and any other Down step raises it by exactly
\* 1; a navigation step changes nothing else of the store or of the file.
C11_NavigationNeverWraps ==
    [][/\ StepIs("Up") =>
            /\ selected_index' = IF selected_index = 0 THEN 0 ELSE selected_index - 1
            /\ UNCHANGED <<todos, file, input, language_input, input_mode, status_message>>
       /\ StepIs("Down") =>
            /\ selected_index' = IF todos = << >> \/ selected_index = Len(todos) - 1
                                 THEN selected_index
                                 ELSE selected_index + 1
            /\ UNCHANGED <<todos, file, input, language_input, input_mode, status_message>>
      ]_vars

\* Down has just been pressed on a store of one task: the selection is still
\* on that task, the last and only index.
C11_Witness ==
    /\ EventIs("Down")
    /\ pc = "draw"
    /\ Len(todos) = 1
    /\ selected_index = 0

-----------------------------------------------------------------------------
(* C12 *)

\* What a frame shows of the status message: the text, as long as less than
\* MESSAGE_VISIBLE_FOR has passed since it was set
Visible == IsSome(status_message) /\ now - Unwrap(status_message).timestamp < MESSAGE_VISIBLE_FOR

\* C12: a read of the status message (made by every frame) returns the message
\* and leaves it in place while less than MESSAGE_VISIBLE_FOR has passed since
\* it was set; a read at or after that returns nothing and clears it, and with
\* no message a read returns nothing and leaves none. A message is cleared by
\* a read only (the read of a frame, drawn or failing after the read): no
\* passage of time and no other step turns a message into none.
C12_MessageExpiresOnRead ==
    [][/\ StepIs("Draw") =>
            /\ Visible =>
                 /\ StatusRead(status_message, now).returned = Some(Unwrap(status_message).text)
                 /\ status_message' = status_message
            /\ ~Visible =>
                 /\ StatusRead(status_message, now).returned = None
                 /\ status_message' = None
       /\ (IsSome(status_message) /\ status_message' = None) =>
            StepIs("Draw") \/ StepIs("DrawFails")
       /\ StepIs("Elapse") => status_message' = status_message
      ]_vars

\* The selected task was started at time 0, which set a message at 0; at time
\* MESSAGE_VISIBLE_FOR exactly a frame has just been drawn and no message is
\* left: messages set at 0 are the only ones that can have expired by then.
C12_Witness ==
    /\ EventIs("Draw")
    /\ pc = "tick"
    /\ now = MESSAGE_VISIBLE_FOR
    /\ status_message = None
    /\ HasSelection
    /\ Selected(todos, selected_index).pomodoro_state = "Work"
    /\ Selected(todos, selected_index).pomodoro_start = Some(0)

-----------------------------------------------------------------------------
(* C13 *)

\* C13: saving a store and loading the file back gives the same number of
\* tasks in the same order, each with the name, the language and the
\* completed count it had, and every loaded task is Idle with no start.
C13_RoundTripIdentity ==
    EventIs("Restart") =>
        /\ Len(todos) = Len(event[2])
        /\ \A k \in 1..Len(todos) :
             /\ k <= Len(event[2]) =>
                  /\ todos[k].name = event[2][k].name
                  /\ todos[k].language = event[2][k].language
                  /\ todos[k].completed_pomodoros = event[2][k].completed_pomodoros
             /\ todos[k].pomodoro_state = "Idle"
             /\ todos[k].pomodoro_start = None

-----------------------------------------------------------------------------
(* C14 *)

\* C14: whenever the process has ended after raw mode was enabled (by the quit
\* key, by an error of draw, poll or read, or by a failure while saving), raw
\* mode is disabled and the alternate screen is left.
C14_TerminalRestoredOnExit ==
    pc \in {"exited", "failed", "panicked"} => ~raw_mode /\ ~alternate_screen

-----------------------------------------------------------------------------
(* C15 *)

\* C15: input_mode changes only along the wizard: from NoTyping to Task on 'i',
\* from Task to Language on Enter with a task buffer that is not blank, from
\* Language to NoTyping on Enter with a language buffer that is not blank, and
\* from Task or Language to NoTyping on Esc. No other step changes input_mode;
\* in particular Language is never left for Task.
C15_WizardTransitionsOnly ==
    [][input_mode' # input_mode =>
          \/ /\ input_mode = "NoTyping" /\ input_mode' = "Task"
             /\ StepTypes("i")
          \/ /\ input_mode = "Task" /\ input_mode' = "Language"
             /\ StepIs("Enter")
             /\ ~Blank(input)
          \/ /\ input_mode = "Language" /\ input_mode' = "NoTyping"
             /\ StepIs("Enter")
             /\ ~Blank(language_input)
             /\ Len(todos') = Len(todos) + 1
          \/ /\ input_mode \in {"Task", "Language"} /\ input_mode' = "NoTyping"
             /\ StepIs("Esc")
      ]_vars

-----------------------------------------------------------------------------
(* C16 *)

\* The selected task has no phase transition due at the current time
NoTransitionDue ==
    \/ todos = << >>
    \/ /\ HasSelection
       /\ \/ Selected(todos, selected_index).pomodoro_state = "Idle"
          \/ /\ Selected(todos, selected_index).pomodoro_state = "Work"
             /\ IsSome(Selected(todos, selected_index).pomodoro_start)
             /\ now - Unwrap(Selected(todos, selected_index).pomodoro_start) < WORK_DURATION
          \/ /\ Selected(todos, selected_index).pomodoro_state = "Break"
             /\ IsSome(Selected(todos, selected_index).pomodoro_start)
             /\ now - Unwrap(Selected(todos, selected_index).pomodoro_start) < BREAK_DURATION

\* C16: a tick changes no task field, not the selection and not the status
\* message when the store is empty, when the selected task is Idle, when it is
\* in Work with less than WORK_DURATION elapsed and when it is in Break with
\* less than BREAK_DURATION elapsed; a tick changes the status message only in
\* a step that changes the phase of the selected task.
C16_TickWithoutTransitionIsNoOp ==
    [][StepIs("Tick") =>
          /\ NoTransitionDue =>
               UNCHANGED <<todos, selected_index, status_message, file, input,
                           language_input, input_mode>>
          /\ status_message' # status_message =>
               /\ HasSelection
               /\ Selected(todos', selected_index).pomodoro_state
                     # Selected(todos, selected_index).pomodoro_state
      ]_vars

\* A tick at time WORK_DURATION has just left alone a selected task in Work
\* that was started at MESSAGE_VISIBLE_FOR, short of a full work interval.
C16_Witness ==
    /\ EventIs("Tick")
    /\ pc = "poll"
    /\ HasSelection
    /\ Selected(todos, selected_index).pomodoro_state = "Work"
    /\ Selected(todos, selected_index).pomodoro_start = Some(MESSAGE_VISIBLE_FOR)
    /\ now = WORK_DURATION

-----------------------------------------------------------------------------
(* C17 *)

\* The selected task has a running timer
TimerRuns ==
    /\ HasSelection
    /\ Selected(todos, selected_index).pomodoro_state \in {"Work", "Break"}
    /\ IsSome(Selected(todos, selected_index).pomodoro_start)

\* The duration of the phase the selected task is in
PhaseDuration ==
    IF Selected(todos, selected_index).pomodoro_state = "Work" THEN WORK_DURATION
    ELSE BREAK_DURATION

SelectedElapsed == now - Unwrap(Selected(todos, selected_index).pomodoro_start)

\* C17: in every frame the projection gives a progress ratio between 0 and 1
\* and a remaining time that is not negative; for a running timer the ratio is
\* min(elapsed / duration, 1) and the remaining time is max(duration - elapsed,
\* 0), also when the timer is overdue; for an Idle selected task or an empty
\* store the ratio is 0; drawing the frame changes no task and no selection.
C17_ProjectionBounded ==
    [][StepIs("Draw") =>
          LET view == pomodoro_overview(todos, selected_index, now)
          IN  /\ view.progress.den > 0
              /\ 0 <= view.progress.num /\ view.progress.num <= view.progress.den
              /\ view.remaining >= 0
              /\ TimerRuns =>
                   /\ view.progress.num * PhaseDuration
                        = view.progress.den * (IF SelectedElapsed < PhaseDuration
                                               THEN SelectedElapsed ELSE PhaseDuration)
                   /\ view.remaining = (IF PhaseDuration - SelectedElapsed > 0
                                        THEN PhaseDuration - SelectedElapsed ELSE 0)
              /\ ~TimerRuns => view.progress.num = 0
              /\ UNCHANGED <<todos, selected_index, file, input, language_input, input_mode>>
      ]_vars

\* A frame has just been drawn at WORK_DURATION + BREAK_DURATION, before the
\* tick, of a selected task still in Work since time 0: an overdue timer.
C17_Witness ==
    /\ EventIs("Draw")
    /\ pc = "tick"
    /\ HasSelection
    /\ Selected(todos, selected_index).pomodoro_state = "Work"
    /\ Selected(todos, selected_index).pomodoro_start = Some(0)
    /\ now = WORK_DURATION + BREAK_DURATION

-----------------------------------------------------------------------------
(* C18 *)

\* The selected task is in the given state with the given completed count
SelectedIs(state, count) ==
    /\ HasSelection
    /\ Selected(todos, selected_index).pomodoro_state = state
    /\ Selected(todos, selected_index).completed_pomodoros = count

\* C18: while the loop keeps ticking, time keeps advancing and no key restarts,
\* deletes, moves the selection or quits, a selected task in Work eventually
\* is in Break with its count raised by exactly 1, and a selected task in
\* Break eventually is Idle with no start and the same count. The break starts
\* at the time of the tick that left Work, and it ends only when
\* BREAK_DURATION has passed since that tick.
C18_WorkCycleCompletes ==
    /\ \A count \in 0..2 :
         SelectedIs("Work", count) ~> SelectedIs("Break", count + 1)
    /\ \A count \in 1..3 :
         SelectedIs("Break", count) ~>
             (SelectedIs("Idle", count) /\ Selected(todos, selected_index).pomodoro_start = None)
    /\ [][/\ (HasSelection /\ Selected(todos, selected_index).pomodoro_state = "Work"
                /\ Selected(todos', selected_index).pomodoro_state # "Work") =>
               /\ StepIs("Tick")
               /\ Selected(todos', selected_index).pomodoro_state = "Break"
               /\ Selected(todos', selected_index).pomodoro_start = Some(now)
          /\ (HasSelection /\ Selected(todos, selected_index).pomodoro_state = "Break"
                /\ Selected(todos', selected_index).pomodoro_state # "Break") =>
               /\ StepIs("Tick")
               /\ Selected(todos', selected_index).pomodoro_state = "Idle"
               /\ now - Unwrap(Selected(todos, selected_index).pomodoro_start) >= BREAK_DURATION
         ]_vars

\* A cycle has just completed at WORK_DURATION + 2 * BREAK_DURATION: the work
\* interval of the task started at MESSAGE_VISIBLE_FOR ran out between two
\* ticks, and the break lasted BREAK_DURATION from the tick that began it.
C18_Witness ==
    /\ EventIs("Tick")
    /\ now = WORK_DURATION + 2 * BREAK_DURATION
    /\ HasSelection
    /\ Selected(todos, selected_index).pomodoro_state = "Idle"
    /\ Selected(todos, selected_index).pomodoro_start = None
    /\ Selected(todos, selected_index).completed_pomodoros = 3
    /\ IsSome(status_message)
    /\ Unwrap(status_message).text.format = "Break finished. Ready for another round?"
    /\ Unwrap(status_message).timestamp = now

-----------------------------------------------------------------------------
(* C19 *)

\* C19: whenever the program has exited through the quit key, the file read
\* back has as many tasks as the store in memory, and the completed count the
\* file holds for each task equals the completed count in memory.
C19_QuitLeavesCountsSaved ==
    (pc = "exited" /\ CharTyped("q")) =>
        /\ Len(load_todos(file)) = Len(todos)
        /\ \A k \in 1..Len(todos) :
             k <= Len(load_todos(file)) =>
                 load_todos(file)[k].completed_pomodoros = todos[k].completed_pomodoros

-----------------------------------------------------------------------------
(* C20 *)

\* C20: in every state with input_mode NoTyping both buffers are empty (Esc
\* and the creation of a task clear them), and in that mode a character key
\* and Backspace change neither buffer.
C20_IdleBuffersEmpty ==
    /\ [](input_mode = "NoTyping" => input = << >> /\ language_input = << >>)
    /\ [][(input_mode = "NoTyping" /\ (StepIs("Char") \/ StepIs("Backspace"))) =>
             UNCHANGED <<input, language_input>>]_vars

\* A task has just been created and saved: both buffers held text that does
\* not trim to nothing, the wizard is left and both buffers are empty.
C20_Witness ==
    /\ EnterOutcome("created")
    /\ pc = "draw"
    /\ input_mode = "NoTyping"
    /\ input = << >>
    /\ language_input = << >>
    /\ todos # << >>
    /\ todos[Len(todos)].name = <<"a">>

====
